---- MODULE Spec2Model ----
(***************************************************************************)
(* A model of the WebAssembly UDF components of tikv:                      *)
(*   components/udf/src/store.rs   the module store (Store)                *)
(*   components/udf/src/wasm.rs    the execution engine (WASM)             *)
(*   components/tidb_query/src/expr/builtin_wasm.rs   the scalar function  *)
(*                                                    adapter (nbody)      *)
(***************************************************************************)
EXTENDS Integers, Sequences, FiniteSets, TLC

(***************************************************************************)
(* Bounds of the model.                                                    *)
(***************************************************************************)
\* flush stops being exercised once the manifest file handle is this far
MaxManifestPos == 8
\* most arguments passed to one call of execute
MaxArgs == 2

(***************************************************************************)
(* The store: store.rs                                                     *)
(***************************************************************************)
VARIABLES
    dir,          \* does the directory STORE_PATH exist
    manifestFile, \* the file STORE_PATH/STORE_MANIFEST: [exists, data]
    files,        \* the files STORE_PATH/<name>: name -> [exists, data]
    store,        \* the Store value the program holds: [open, manifest, pos]
    ret,          \* the last store operation and what it returned
    loaded,       \* history: what the first successful get of one name returned
    wasm,         \* the WASM value the engine is called on: [name, contents]
    call,         \* the last call of execute on it and what it did
    host,         \* the host process: [alive, status]
    eval,         \* the last evaluation of the scalar function nbody
    thr,          \* the threads sharing the Store, each one's call in progress
    prev          \* history: the module value and the call last dropped

storeVars == <<dir, manifestFile, files, store>>
histVars == <<ret, loaded>>

\* the module names used (file names under STORE_PATH)
Names == {"a", "b"}
\* serde_json's Map is a BTreeMap: keys are kept and written in order
NameOrder == <<"a", "b">>

RECURSIVE SeqsUpTo(_, _)
SeqsUpTo(S, n) ==
    IF n = 0 THEN {<<>>}
    ELSE LET shorter == SeqsUpTo(S, n - 1)
         IN  shorter \cup {Append(s, x) : s \in {t \in shorter : Len(t) = n - 1}, x \in S}

\* The byte sequences written as module files and passed to insert
Payloads == {<<>>, <<1>>, <<2>>, <<1, 1>>, <<1, 2>>, <<2, 1>>, <<2, 2>>}

NoFile == [exists |-> FALSE, data |-> <<>>]
FileOf(d) == [exists |-> TRUE, data |-> d]

\* Result values: Ok(v) and Err(e)
Ok(v) == [ok |-> TRUE, val |-> v, err |-> "none"]
Err(e) == [ok |-> FALSE, val |-> <<>>, err |-> e]
\* Option values inside an Ok
None == [some |-> FALSE, data |-> <<>>]
Some(d) == [some |-> TRUE, data |-> d]

\* write(2) of data at offset pos of a file holding content: the bytes at
\* pos .. pos+Len(data)-1 are replaced, the file grows when the write ends
\* beyond its end, and nothing is truncated
WriteAt(content, pos, data) ==
    LET n == IF pos + Len(data) > Len(content) THEN pos + Len(data) ELSE Len(content)
    IN  [i \in 1..n |->
            IF i > pos /\ i <= pos + Len(data) THEN data[i - pos]
            ELSE IF i <= Len(content) THEN content[i]
            ELSE 0]

\* serde_json::to_writer of the manifest: one JSON object, keys in order,
\* every value null.  A token stands for one lexical unit of the text:
\* "{", "}", ",", and the entry "<name>":null written as the name.
RECURSIVE EntriesFrom(_, _)
EntriesFrom(m, i) ==
    IF i > Len(NameOrder) THEN <<>>
    ELSE IF NameOrder[i] \in m
         THEN LET rest == EntriesFrom(m, i + 1)
              IN  IF rest = <<>> THEN <<NameOrder[i]>>
                  ELSE <<NameOrder[i], ",">> \o rest
         ELSE EntriesFrom(m, i + 1)
Serialize(m) == <<"{">> \o EntriesFrom(m, 1) \o <<"}">>

\* serde_json::from_slice::<Map<String, Value>>: the whole content must be
\* one JSON object; trailing text or an empty file is an error
IsObject(c) ==
    /\ Len(c) >= 2
    /\ c[1] = "{"
    /\ c[Len(c)] = "}"
    /\ \/ Len(c) = 2
       \/ /\ Len(c) % 2 = 1
          /\ \A i \in 2..(Len(c) - 1) :
                IF i % 2 = 0 THEN c[i] \in Names ELSE c[i] = ","
ObjectKeys(c) == {c[i] : i \in {j \in 2..(Len(c) - 1) : j % 2 = 0}}

\* The record of an operation: what was called and what it returned, whether
\* it read a module file, whether (get) the name had been loaded before, and
\* whether (init) the directory was missing before the call
Returned(op, name, arg, res) ==
    [op |-> op, name |-> name, arg |-> arg, res |-> res,
     read |-> FALSE, again |-> FALSE, fresh |-> FALSE]

\* History, kept for the name loaded.name: whether a get of it has succeeded,
\* what the first one returned, and whether the file is still as that get
\* found it.  Touched: the file of name becomes newFile.
NotLoaded(name) == [name |-> name, some |-> FALSE, data |-> <<>>, fresh |-> FALSE]
Touched(name, newFile) ==
    IF name = loaded.name
    THEN [loaded EXCEPT !.fresh = @ /\ newFile = files[name]]
    ELSE loaded

NoStore == [open |-> FALSE, manifest |-> {}, pos |-> 0]

\* Store::init
InitResult ==
    IF ~manifestFile.exists THEN Err("NotFound")
    ELSE IF ~IsObject(manifestFile.data) THEN Err("Json")
    ELSE Ok(ObjectKeys(manifestFile.data))

StoreInit ==
    /\ dir' = TRUE
    /\ LET r == InitResult
       IN  /\ store' = IF r.ok THEN [open |-> TRUE, manifest |-> r.val, pos |-> 0]
                       ELSE store
           /\ ret' = [Returned("init", "", <<>>, r) EXCEPT !.fresh = ~dir]
    /\ UNCHANGED <<manifestFile, files, loaded>>
\* Store::flush: the manifest is written through the handle opened by init,
\* at the handle's position, which the write advances
FlushedFile(m) == FileOf(WriteAt(manifestFile.data, store.pos, Serialize(m)))

\* Store::insert
Insert(name, payload) ==
    /\ store.open
    /\ store.pos + Len(Serialize(store.manifest \cup {name})) <= MaxManifestPos
    /\ IF ~files[name].exists
       THEN /\ ret' = Returned("insert", name, payload, Err("NotFound"))
            /\ UNCHANGED <<storeVars, loaded>>
       ELSE LET m == store.manifest \cup {name}
            IN  /\ files' = [files EXCEPT ![name] = FileOf(WriteAt(@.data, 0, payload))]
                /\ manifestFile' = FlushedFile(m)
                /\ store' = [store EXCEPT !.manifest = m,
                                          !.pos = @ + Len(Serialize(m))]
                /\ ret' = Returned("insert", name, payload, Ok(<<>>))
                /\ loaded' = Touched(name, FileOf(WriteAt(files[name].data, 0, payload)))
                /\ UNCHANGED dir

\* (mutant) the file is read whether or not the manifest has the name
GetResultUnlisted(name) ==
    IF ~files[name].exists THEN Err("NotFound")
    ELSE Ok(Some(files[name].data))

\* (mutant) what a get has loaded is kept and returned again
GetResultCached(name) ==
    IF name = loaded.name /\ loaded.some THEN Ok(Some(loaded.data))
    ELSE IF name \notin store.manifest THEN Ok(None)
    ELSE IF ~files[name].exists THEN Err("NotFound")
    ELSE Ok(Some(files[name].data))

\* (mutant) the file is read only while nothing has been loaded
GetReadsOnce(name) ==
    name \in store.manifest /\ ~(name = loaded.name /\ loaded.some)

\* Store::get: the result, and whether the call read the module's file
GetResult(name) ==
    IF name \notin store.manifest THEN Ok(None)
    ELSE IF ~files[name].exists THEN Err("NotFound")
    ELSE Ok(Some(files[name].data))
GetReads(name) == name \in store.manifest

\* the record of one call of get, and the history after it
GetReturned(name) ==
    [Returned("get", name, <<>>, GetResult(name))
        EXCEPT !.read = GetReads(name),
               !.again = name = loaded.name /\ loaded.some]
GetLoaded(name) ==
    LET r == GetResult(name)
    IN  IF r.ok /\ r.val.some /\ name = loaded.name /\ ~loaded.some
        THEN [loaded EXCEPT !.some = TRUE, !.data = r.val.data, !.fresh = TRUE]
        ELSE loaded

Get(name) ==
    /\ store.open
    /\ ret' = GetReturned(name)
    /\ loaded' = GetLoaded(name)
    /\ UNCHANGED storeVars

\* Store::list
ListResult == SelectSeq(NameOrder, LAMBDA n : n \in store.manifest)

List ==
    /\ store.open
    /\ ret' = Returned("list", "", <<>>, Ok(ListResult))
    /\ UNCHANGED <<storeVars, loaded>>

\* The environment: module files are put under STORE_PATH, replaced and
\* removed from outside the program (insert never creates a file)
ExtWriteFile(name, payload) ==
    /\ dir
    /\ files' = [files EXCEPT ![name] = FileOf(payload)]
    /\ ret' = Returned("ext", "", <<>>, Ok(<<>>))
    /\ loaded' = Touched(name, FileOf(payload))
    /\ UNCHANGED <<dir, manifestFile, store>>

ExtRemoveFile(name) ==
    /\ files[name].exists
    /\ files' = [files EXCEPT ![name] = NoFile]
    /\ ret' = Returned("ext", "", <<>>, Ok(<<>>))
    /\ loaded' = Touched(name, NoFile)
    /\ UNCHANGED <<dir, manifestFile, store>>

(***************************************************************************)
(* The execution engine: wasm.rs                                           *)
(***************************************************************************)
\* A Rust String is a sequence of characters
Digits == <<"0", "1", "2", "3", "4", "5", "6", "7", "8", "9">>
IsDigit(c) == \E i \in 1..10 : Digits[i] = c
DigitOf(c) == (CHOOSE i \in 1..10 : Digits[i] = c) - 1

\* An integer value: sign and decimal magnitude without leading zeros
\* (values of the 64-bit kinds do not fit the checker's integers)
RECURSIVE StripZeros(_)
StripZeros(ds) ==
    IF Len(ds) > 1 /\ ds[1] = 0 THEN StripZeros(Tail(ds)) ELSE ds
IntVal(neg, ds) ==
    LET mag == StripZeros(ds)
    IN  [neg |-> neg /\ mag # <<0>>, mag |-> mag]

\* mag1 <= mag2 for magnitudes without leading zeros
RECURSIVE LexLeq(_, _)
LexLeq(x, y) ==
    IF x = <<>> THEN TRUE
    ELSE IF x[1] # y[1] THEN x[1] < y[1]
    ELSE LexLeq(Tail(x), Tail(y))
MagLeq(x, y) ==
    \/ Len(x) < Len(y)
    \/ Len(x) = Len(y) /\ LexLeq(x, y)

\* i32::MAX, -(i32::MIN), i64::MAX, -(i64::MIN)
I32Max == <<2, 1, 4, 7, 4, 8, 3, 6, 4, 7>>
I32MinMag == <<2, 1, 4, 7, 4, 8, 3, 6, 4, 8>>
I64Max == <<9, 2, 2, 3, 3, 7, 2, 0, 3, 6, 8, 5, 4, 7, 7, 5, 8, 0, 7>>
I64MinMag == <<9, 2, 2, 3, 3, 7, 2, 0, 3, 6, 8, 5, 4, 7, 7, 5, 8, 0, 8>>

NoVal == [neg |-> FALSE, mag |-> <<>>]
ParseFail == [some |-> FALSE, data |-> NoVal]

\* (mutant) the digits are taken whatever the range of the kind
ParseIntUnchecked(s, maxMag, minMag) ==
    IF s = <<>> THEN ParseFail
    ELSE LET signed == s[1] \in {"+", "-"}
             neg == s[1] = "-"
             body == IF signed THEN Tail(s) ELSE s
         IN  IF body = <<>> THEN ParseFail
             ELSE IF \E i \in 1..Len(body) : ~IsDigit(body[i]) THEN ParseFail
             ELSE Some(IntVal(neg, [i \in 1..Len(body) |-> DigitOf(body[i])]))

\* <str as FromStr for i32/i64>::from_str: an optional sign, then one or more
\* decimal digits and nothing else; a value out of range is an error
ParseInt(s, maxMag, minMag) ==
    IF s = <<>> THEN ParseFail
    ELSE LET signed == s[1] \in {"+", "-"}
             neg == s[1] = "-"
             body == IF signed THEN Tail(s) ELSE s
         IN  IF body = <<>> THEN ParseFail
             ELSE IF \E i \in 1..Len(body) : ~IsDigit(body[i]) THEN ParseFail
             ELSE LET v == IntVal(neg, [i \in 1..Len(body) |-> DigitOf(body[i])])
                  IN  IF MagLeq(v.mag, IF neg THEN minMag ELSE maxMag)
                      THEN Some(v)
                      ELSE ParseFail

\* <str as FromStr for f32/f64>::from_str (core::num::dec2flt) accepts
\*   [sign] ( "inf" | "NaN" | Number ),
\*   Number ::= ( Digit+ | Digit+ "." Digit* | Digit* "." Digit+ ) [Exp],
\*   Exp ::= ("e" | "E") [sign] Digit+
\* and never fails on magnitude.  The value is kept as its sign and text.
AllDigits(s) == \A i \in 1..Len(s) : IsDigit(s[i])
IsExp(s) ==
    /\ s # <<>>
    /\ LET t == IF s[1] \in {"+", "-"} THEN Tail(s) ELSE s
       IN  t # <<>> /\ AllDigits(t)
IsMantissa(s) ==
    /\ s # <<>>
    /\ AllDigits(SelectSeq(s, LAMBDA c : c # "."))
    /\ Len(SelectSeq(s, LAMBDA c : c = ".")) <= 1
    /\ SelectSeq(s, LAMBDA c : c # ".") # <<>>
IsNumber(s) ==
    LET es == {i \in 1..Len(s) : s[i] \in {"e", "E"}}
    IN  IF es = {} THEN IsMantissa(s)
        ELSE LET k == CHOOSE i \in es : \A j \in es : i <= j
             IN  IsMantissa(SubSeq(s, 1, k - 1)) /\ IsExp(SubSeq(s, k + 1, Len(s)))
ParseFloat(s) ==
    IF s = <<>> THEN ParseFail
    ELSE LET neg == s[1] = "-"
             body == IF s[1] \in {"+", "-"} THEN Tail(s) ELSE s
         IN  IF body = <<"i", "n", "f">>
             THEN Some([neg |-> neg, mag |-> <<"inf">>])
             ELSE IF body = <<"N", "a", "N">>
             THEN Some([neg |-> neg, mag |-> <<"NaN">>])
             ELSE IF IsNumber(body)
             THEN Some([neg |-> neg, mag |-> body])
             ELSE ParseFail

\* Arithmetic on decimal magnitudes (sequences of digits 0..9)
RECURSIVE HalveFrom(_, _, _)
HalveFrom(ds, i, carry) ==
    IF i > Len(ds) THEN <<>>
    ELSE <<(carry * 10 + ds[i]) \div 2>> \o HalveFrom(ds, i + 1, ds[i] % 2)
Halve(ds) == StripZeros(HalveFrom(ds, 1, 0))
IsOdd(ds) == ds[Len(ds)] % 2 = 1
RECURSIVE DoubleFrom(_, _, _)
DoubleFrom(ds, i, carry) ==
    IF i = 0 THEN (IF carry = 0 THEN <<>> ELSE <<carry>>)
    ELSE DoubleFrom(ds, i - 1, (2 * ds[i] + carry) \div 10)
            \o <<(2 * ds[i] + carry) % 10>>
Double(ds) == StripZeros(DoubleFrom(ds, Len(ds), 0))
RECURSIVE Succ(_)
Succ(ds) ==
    IF ds = <<>> THEN <<1>>
    ELSE IF ds[Len(ds)] < 9 THEN [ds EXCEPT ![Len(ds)] = @ + 1]
    ELSE Succ(SubSeq(ds, 1, Len(ds) - 1)) \o <<0>>
RECURSIVE DoubleTimes(_, _)
DoubleTimes(ds, n) ==
    IF n = 0 THEN ds
    ELSE CHOOSE r \in {DoubleTimes(d, n - 1) : d \in {Double(ds)}} : TRUE

\* 2^24 and 2^53: the integers below them fit the significand of f32, f64
F32Limit == <<1, 6, 7, 7, 7, 2, 1, 6>>
F64Limit == <<9, 0, 0, 7, 1, 9, 9, 2, 5, 4, 7, 4, 0, 9, 9, 2>>

\* dec2flt rounds to the nearest value of the kind, ties to even: the
\* magnitude is halved until it fits the significand, keeping the last bit
\* shifted out (round) and whether any earlier one was set (sticky).
\* (Intermediate magnitudes are bound by a set constructor, so that each is
\* computed once.)
RECURSIVE RoundShifted(_, _, _, _, _)
RoundShifted(q, shifts, round, sticky, limit) ==
    IF MagLeq(q, limit) /\ q # limit
    THEN DoubleTimes(IF round /\ (sticky \/ IsOdd(q)) THEN Succ(q) ELSE q, shifts)
    ELSE CHOOSE r \in {RoundShifted(h, shifts + 1, IsOdd(q), sticky \/ round, limit) :
                          h \in {Halve(q)}} : TRUE
RoundInteger(ds, limit) ==
    CHOOSE r \in {RoundShifted(q, 0, FALSE, FALSE, limit) : q \in {StripZeros(ds)}} : TRUE

\* The f32 / f64 a parsed text becomes.  A text of digits only becomes the
\* nearest integer the kind has; a text with a fraction or an exponent, inf
\* and NaN are kept as they are written.
FloatOf(ty, v) ==
    IF AllDigits(v.mag)
    THEN [neg |-> v.neg,
          mag |-> CHOOSE m \in {[i \in 1..Len(r) |-> Digits[r[i] + 1]] :
                                r \in {RoundInteger([i \in 1..Len(v.mag) |-> DigitOf(v.mag[i])],
                                                    IF ty = "F32" THEN F32Limit
                                                    ELSE F64Limit)}} : TRUE]
    ELSE v

\* wasmer::ValType and wasmer::Val
NumericTypes == {"I32", "I64", "F32", "F64"}
ValTypes == NumericTypes \cup {"V128", "ExternRef", "FuncRef"}
Val(ty, v) == [ty |-> ty, v |-> v]

\* anyhow errors, by the message that is built
NoError == [kind |-> "none", name |-> "", arg |-> <<>>, target |-> "",
            expected |-> 0, received |-> 0, args |-> <<>>]
EOk(v) == [ok |-> TRUE, val |-> v, err |-> NoError]
EErr(e) == [ok |-> FALSE, val |-> <<>>, err |-> e]

\* The export names used as endpoints
Endpoints == {"udf_main", "_start", "mem", "nope"}

\* An export of a module: a function with its parameter kinds and what its
\* body does when called, a memory, or nothing under that name
NoExport == [kind |-> "none", params |-> <<>>, body |-> "none"]
MemExport == [kind |-> "memory", params |-> <<>>, body |-> "none"]
Func(params, body) == [kind |-> "func", params |-> params, body |-> body]

\* A compiled module, as far as execute looks at it:
\*   wasi     it imports from a WASI namespace (wasi_snapshot_preview1, ...)
\*   env      it imports from another namespace
\*   nfuncs   the size of ModuleInfo.functions: the imported and the defined
\*            functions, exported or not
\*   exports  what is exported under each name
Mod(wasi, env, nfuncs, udf_main, start, mem) ==
    [wasi |-> wasi, env |-> env, nfuncs |-> nfuncs,
     exports |-> [e \in Endpoints |->
                     CASE e = "udf_main" -> udf_main
                       [] e = "_start" -> start
                       [] e = "mem" -> mem
                       [] OTHER -> NoExport]]

\* Module::new(&store, &self.contents): the module a byte sequence encodes.
\* The table fixes which modules the byte sequences of the model stand for;
\* every other byte sequence is malformed.
ModuleTable ==
    [valid |-> {<<1>>, <<2>>, <<1, 1>>, <<1, 2>>, <<2, 1>>, <<2, 2>>,
                <<3, 1>>, <<3, 2>>, <<3, 3>>, <<3, 4>>, <<3, 5>>},
     of |-> [b \in {<<1>>, <<2>>, <<1, 1>>, <<1, 2>>, <<2, 1>>, <<2, 2>>,
                    <<3, 1>>, <<3, 2>>, <<3, 3>>, <<3, 4>>, <<3, 5>>} |->
        CASE b = <<1>> ->    \* i64 udf_main(i64) returning its argument
                Mod(FALSE, FALSE, 1, Func(<<"I64">>, "echo"), NoExport, MemExport)
          [] b = <<2>> ->    \* udf_main(i64) without a result
                Mod(FALSE, FALSE, 1, Func(<<"I64">>, "ret_empty"), NoExport, NoExport)
          [] b = <<1, 1>> -> \* f64 udf_main(i64)
                Mod(FALSE, FALSE, 1, Func(<<"I64">>, "ret_f64"), NoExport, NoExport)
          [] b = <<1, 2>> -> \* udf_main(i64) hits unreachable
                Mod(FALSE, FALSE, 2, Func(<<"I64">>, "trap"), Func(<<>>, "ret_empty"), NoExport)
          [] b = <<2, 1>> -> \* WASI: both entries call proc_exit
                Mod(TRUE, FALSE, 3, Func(<<"I64">>, "exit_max"), Func(<<>>, "exit_7"), MemExport)
          [] b = <<2, 2>> -> \* no function at all, a memory is exported
                Mod(FALSE, FALSE, 0, NoExport, NoExport, MemExport)
          [] b = <<3, 1>> -> \* a function is defined, nothing is exported
                Mod(FALSE, FALSE, 1, NoExport, NoExport, NoExport)
          [] b = <<3, 2>> -> \* several parameters, one of a kind not supported
                Mod(FALSE, FALSE, 2, Func(<<"I32", "F64">>, "echo"),
                    Func(<<"V128", "I32">>, "ret_empty"), NoExport)
          [] b = <<3, 3>> -> \* imports from env only
                Mod(FALSE, TRUE, 2, Func(<<"I64">>, "echo"), NoExport, NoExport)
          [] b = <<3, 4>> -> \* WASI and env imports
                Mod(TRUE, TRUE, 3, Func(<<"I64">>, "echo"), Func(<<>>, "ret_empty"), NoExport)
          [] b = <<3, 5>> -> \* WASI: _start returns, udf_main fails inside WASI
                Mod(TRUE, FALSE, 2, Func(<<"I32", "I32">>, "wasi_unknown"),
                    Func(<<>>, "ret_empty"), MemExport)]]

NoModule == Mod(FALSE, FALSE, 0, NoExport, NoExport, NoExport)
Compile(contents) ==
    IF contents \in ModuleTable.valid
    THEN [ok |-> TRUE, module |-> ModuleTable.of[contents]]
    ELSE [ok |-> FALSE, module |-> NoModule]

\* WasiError::Exit carries a u32, written here as its two 16-bit halves
ExitCode7 == <<0, 7>>
ExitCodeMax == <<65535, 65535>>
NoCode == <<0, 0>>

\* Function::call: what the body of the called function does with the
\* coerced arguments
\*   kind  "ok" (results), "trap" (a RuntimeError that is no WasiError),
\*         "wasi_exit" (WasiError::Exit(code)),
\*         "wasi_other" (WasiError::UnknownWasiVersion)
CallOutcome(body, invoke_args) ==
    CASE body = "echo" -> [kind |-> "ok", results |-> <<invoke_args[1]>>, code |-> NoCode]
      [] body = "ret_empty" -> [kind |-> "ok", results |-> <<>>, code |-> NoCode]
      [] body = "ret_f64" ->
            [kind |-> "ok",
             results |-> <<Val("F64", [neg |-> FALSE, mag |-> <<"1", ".", "5">>])>>,
             code |-> NoCode]
      [] body = "trap" -> [kind |-> "trap", results |-> <<>>, code |-> NoCode]
      [] body = "exit_7" -> [kind |-> "wasi_exit", results |-> <<>>, code |-> ExitCode7]
      [] body = "exit_max" -> [kind |-> "wasi_exit", results |-> <<>>, code |-> ExitCodeMax]
      [] body = "wasi_unknown" -> [kind |-> "wasi_other", results |-> <<>>, code |-> NoCode]

\* exit_code as i32, the argument of std::process::exit
ExitCast(code) ==
    IF code[1] >= 32768 THEN (code[1] - 65536) * 65536 + code[2]
    ELSE code[1] * 65536 + code[2]

\* (mutant) the WASI version is looked up in strict mode: no other imports
has_wasi_imports_strict(module) == module.wasi /\ ~module.env

\* WASM::has_wasi_imports
has_wasi_imports(module) == module.wasi

\* The import object execute builds: from a fresh WasiState (program name
\* and arguments) when the module has WASI imports, else imports! {}
NoSession == [made |-> FALSE, program |-> "", args |-> <<>>]
ImportObject(self, module, args) ==
    IF has_wasi_imports(module)
    THEN [made |-> TRUE, program |-> self.name, args |-> args]
    ELSE NoSession

\* Instance::new: every import of the module must be provided; the WASI
\* import object provides the WASI namespace and nothing else
Instantiates(module, import_object) ==
    /\ ~module.env
    /\ module.wasi => import_object.made

\* (mutant) the message is chosen by whether a function is exported
try_find_function_by_exports(module, name) ==
    LET e == module.exports[name]
    IN  IF e.kind = "func" THEN EOk(e)
        ELSE IF \A x \in Endpoints : module.exports[x].kind # "func"
        THEN EErr([NoError EXCEPT !.kind = "NoExportedFunctions"])
        ELSE IF e.kind = "none"
        THEN EErr([NoError EXCEPT !.kind = "NoExport", !.name = name])
        ELSE EErr([NoError EXCEPT !.kind = "NotAFunction", !.name = name])

\* WASM::try_find_function
try_find_function(module, name) ==
    LET e == module.exports[name]
    IN  IF e.kind = "func" THEN EOk(e)
        ELSE IF module.nfuncs = 0
        THEN EErr([NoError EXCEPT !.kind = "NoExportedFunctions"])
        ELSE IF e.kind = "none"
        THEN EErr([NoError EXCEPT !.kind = "NoExport", !.name = name])
        ELSE EErr([NoError EXCEPT !.kind = "NotAFunction", !.name = name])

\* the closure of invoke_function's map: one argument and its parameter kind
ConvertArg(arg, param_type) ==
    LET bad == EErr([NoError EXCEPT !.kind = "CantConvert", !.arg = arg,
                                    !.target = param_type])
        p == CASE param_type = "I32" -> ParseInt(arg, I32Max, I32MinMag)
               [] param_type = "I64" -> ParseInt(arg, I64Max, I64MinMag)
               [] param_type \in {"F32", "F64"} -> ParseFloat(arg)
               [] OTHER -> ParseFail
    IN  IF param_type \notin NumericTypes
        THEN EErr([NoError EXCEPT !.kind = "DontKnowHow", !.arg = arg,
                                  !.target = param_type])
        ELSE IF ~p.some THEN bad
        ELSE IF param_type \in {"F32", "F64"}
        THEN EOk(Val(param_type, FloatOf(param_type, p.data)))
        ELSE EOk(Val(param_type, p.data))

\* (mutant) every argument is converted and the last error is returned
RECURSIVE ConvertFromKeepGoing(_, _, _, _)
ConvertFromKeepGoing(args, params, i, acc) ==
    IF i > Len(args) \/ i > Len(params) THEN EOk(acc)
    ELSE LET c == ConvertArg(args[i], params[i])
             rest == ConvertFromKeepGoing(args, params, i + 1,
                                          IF c.ok THEN Append(acc, c.val) ELSE acc)
         IN  IF c.ok \/ ~rest.ok THEN rest ELSE c

\* collect::<Result<Vec<_>>>: the conversions in order, stopping at the
\* first error
RECURSIVE ConvertFrom(_, _, _, _)
ConvertFrom(args, params, i, acc) ==
    IF i > Len(args) \/ i > Len(params) THEN EOk(acc)
    ELSE LET c == ConvertArg(args[i], params[i])
         IN  IF c.ok THEN ConvertFrom(args, params, i + 1, Append(acc, c.val))
             ELSE c

\* What one call of execute did: its result, the steps it entered, in order,
\* whether an Instance was made, whether Function::call was made and with
\* which arguments, the WASI session it built, and whether it ended the
\* process (std::process::exit) and with which status
Outcome(res, steps, invoked, invoke_args) ==
    [res |-> res, steps |-> steps, instantiated |-> FALSE, invoked |-> invoked,
     invoke_args |-> invoke_args, session |-> NoSession,
     exited |-> FALSE, status |-> 0]

\* (mutant) an exit request is returned as an error like any other failure
ClassifiedAllReturned(result, invoke_args) ==
    LET done == Outcome(EOk(result.results),
                        <<"resolve", "arity", "coerce", "invoke">>,
                        TRUE, invoke_args)
    IN  CASE result.kind = "ok" -> done
          [] result.kind \in {"wasi_exit", "wasi_other"} ->
                [done EXCEPT !.res = EErr([NoError EXCEPT !.kind = "WasiError"])]
          [] OTHER ->
                [done EXCEPT !.res = EErr([NoError EXCEPT !.kind = "RuntimeError"])]

\* invoke_function, lines 94-107: the result of Function::call is returned,
\* ends the process (WasiError::Exit) or becomes the error of the call
Classified(result, invoke_args) ==
    LET done == Outcome(EOk(result.results),
                        <<"resolve", "arity", "coerce", "invoke">>,
                        TRUE, invoke_args)
    IN  CASE result.kind = "ok" -> done
          [] result.kind = "wasi_exit" ->
                [done EXCEPT !.res = EErr(NoError), !.exited = TRUE,
                             !.status = ExitCast(result.code)]
          [] result.kind = "wasi_other" ->
                [done EXCEPT !.res = EErr([NoError EXCEPT !.kind = "WasiError"])]
          [] OTHER ->
                [done EXCEPT !.res = EErr([NoError EXCEPT !.kind = "RuntimeError"])]

\* invoke_function, lines 63-94: the converted arguments, or the first
\* conversion error
Converted(func, invoke_args) ==
    IF ~invoke_args.ok
    THEN Outcome(invoke_args, <<"resolve", "arity", "coerce">>, FALSE, <<>>)
    ELSE Classified(CallOutcome(func.body, invoke_args.val), invoke_args.val)

\* (mutant) the arguments are coerced before their count is checked
ResolvedCoerceFirst(func, args) ==
    IF ~func.ok THEN Outcome(func, <<"resolve">>, FALSE, <<>>)
    ELSE IF ~ConvertFrom(args, func.val.params, 1, <<>>).ok
    THEN Outcome(ConvertFrom(args, func.val.params, 1, <<>>),
                 <<"resolve", "coerce">>, FALSE, <<>>)
    ELSE IF Len(func.val.params) # Len(args)
    THEN Outcome(EErr([NoError EXCEPT !.kind = "ArityMismatch",
                                      !.expected = Len(func.val.params),
                                      !.received = Len(args),
                                      !.args = args]),
                 <<"resolve", "coerce", "arity">>, FALSE, <<>>)
    ELSE Converted(func.val, ConvertFrom(args, func.val.params, 1, <<>>))

\* (mutant) only too few arguments are refused
ResolvedTooFewOnly(func, args) ==
    IF ~func.ok THEN Outcome(func, <<"resolve">>, FALSE, <<>>)
    ELSE IF Len(func.val.params) > Len(args)
    THEN Outcome(EErr([NoError EXCEPT !.kind = "ArityMismatch",
                                      !.expected = Len(func.val.params),
                                      !.received = Len(args),
                                      !.args = args]),
                 <<"resolve", "arity">>, FALSE, <<>>)
    ELSE Converted(func.val, ConvertFrom(args, func.val.params, 1, <<>>))

\* invoke_function, lines 52-62: the argument count is compared with the
\* declared parameter count
Resolved(func, args) ==
    IF ~func.ok THEN Outcome(func, <<"resolve">>, FALSE, <<>>)
    ELSE IF Len(func.val.params) # Len(args)
    THEN Outcome(EErr([NoError EXCEPT !.kind = "ArityMismatch",
                                      !.expected = Len(func.val.params),
                                      !.received = Len(args),
                                      !.args = args]),
                 <<"resolve", "arity">>, FALSE, <<>>)
    ELSE Converted(func.val, ConvertFrom(args, func.val.params, 1, <<>>))

\* WASM::invoke_function
invoke_function(self, module, invoke, args) ==
    Resolved(try_find_function(module, invoke), args)

\* execute, lines 34-35: Instance::new, then invoke_function
Instantiated(self, module, import_object, endpoint, args) ==
    IF ~Instantiates(module, import_object)
    THEN [Outcome(EErr([NoError EXCEPT !.kind = "InstantiationError"]),
                  <<"compile", "imports", "instantiate">>, FALSE, <<>>)
            EXCEPT !.session = import_object]
    ELSE [invoke_function(self, module, endpoint, args)
            EXCEPT !.steps = <<"compile", "imports", "instantiate">> \o @,
                   !.instantiated = TRUE,
                   !.session = import_object]

\* execute, lines 22-33: Module::new, then the import object
Compiled(self, compiled, endpoint, args) ==
    IF ~compiled.ok
    THEN Outcome(EErr([NoError EXCEPT !.kind = "CompileError"]),
                 <<"compile">>, FALSE, <<>>)
    ELSE Instantiated(self, compiled.module,
                      ImportObject(self, compiled.module, args), endpoint, args)

\* WASM::execute
execute(self, endpoint, args) ==
    Compiled(self, Compile(self.contents), endpoint, args)

\* The argument strings the calls draw from
ArgPool ==
    {<<"2", "1">>, <<"-", "5">>, <<"0", "0", "7">>, <<>>, <<"x">>, <<"1", ".", "5">>, <<"-">>,
     <<"2", "1", "4", "7", "4", "8", "3", "6", "4", "8">>, <<"-", "2", "1", "4", "7", "4", "8", "3", "6", "4", "8">>,
     <<"9", "2", "2", "3", "3", "7", "2", "0", "3", "6", "8", "5", "4", "7", "7", "5", "8", "0", "8">>,
     <<"9", "0", "0", "7", "1", "9", "9", "2", "5", "4", "7", "4", "0", "9", "9", "3">>}
ArgLists == SeqsUpTo(ArgPool, MaxArgs)

WasmNames == {"nbody", "m"}
WasmContents == ModuleTable.valid \cup {<<>>, <<3>>}

NoCall == [made |-> FALSE, endpoint |-> "", args |-> <<>>,
           out |-> Outcome(EErr(NoError), <<>>, FALSE, <<>>)]
Running == [alive |-> TRUE, status |-> 0]

\* WASM::new
EngineInitState ==
    /\ wasm \in [name : WasmNames, contents : WasmContents]
    /\ call = NoCall
    /\ host = Running

\* (mutant) the instance of the last call is kept and called again
ExecuteWarm(endpoint, args) ==
    /\ host.alive
    /\ ~call.made
    /\ LET out == IF prev.made /\ prev.call.out.instantiated
                  THEN invoke_function(wasm, Compile(wasm.contents).module,
                                       endpoint, args)
                  ELSE execute(wasm, endpoint, args)
       IN  /\ call' = [made |-> TRUE, endpoint |-> endpoint, args |-> args, out |-> out]
           /\ host' = IF out.exited THEN [alive |-> FALSE, status |-> out.status]
                      ELSE host
    /\ UNCHANGED wasm

\* One call wasm.execute(endpoint, args) by the host process; the caller
\* holds what it returned until it drops it
Execute(endpoint, args) ==
    /\ host.alive
    /\ ~call.made
    /\ LET out == execute(wasm, endpoint, args)
       IN  /\ call' = [made |-> TRUE, endpoint |-> endpoint, args |-> args, out |-> out]
           /\ host' = IF out.exited THEN [alive |-> FALSE, status |-> out.status]
                      ELSE host
    /\ UNCHANGED wasm

\* The caller drops the result of the call
DropResult ==
    /\ host.alive
    /\ call.made
    /\ call' = NoCall
    /\ UNCHANGED <<wasm, host>>

\* The call the caller dropped last, with the module value it was made on
NoPrev == [made |-> FALSE, wasm |-> [name |-> "", contents |-> <<>>], call |-> NoCall]

\* The caller drops the result of a call and goes on to the next one
NextCall ==
    /\ DropResult
    /\ prev' = [made |-> TRUE, wasm |-> wasm, call |-> call]

\* the argument lists of the repeated calls
RepeatArgs == {<<"2", "1">>, <<"x">>}
RepeatArgLists == SeqsUpTo(RepeatArgs, MaxArgs)

NoRet == Returned("none", "", <<>>, Ok(<<>>))

\* The disk before the program starts: a fresh location, or a directory
\* provisioned with a manifest (empty file, or the empty object)
StoreInitState ==
    /\ dir \in BOOLEAN
    /\ manifestFile \in (IF dir THEN {NoFile, FileOf(<<>>), FileOf(Serialize({}))}
                         ELSE {NoFile})
    /\ files = [n \in Names |-> NoFile]
    /\ store = NoStore
    /\ ret = NoRet
    /\ loaded \in {NotLoaded(n) : n \in Names}

(***************************************************************************)
(* The scalar function adapter: builtin_wasm.rs                            *)
(***************************************************************************)
\* i64::to_string
to_string(v) ==
    (IF v.neg THEN <<"-">> ELSE <<>>) \o [i \in 1..Len(v.mag) |-> Digits[v.mag[i] + 1]]

\* What self.children[0].eval_int(ctx, row) gives: an error, NULL, or a value
ChildErr == [kind |-> "err", v |-> NoVal]
ChildNull == [kind |-> "null", v |-> NoVal]
ChildInt(v) == [kind |-> "int", v |-> v]
Inputs ==
    {ChildErr, ChildNull,
     ChildInt(IntVal(FALSE, <<2, 1>>)), ChildInt(IntVal(TRUE, <<5>>)),
     ChildInt(IntVal(FALSE, <<0>>))}

\* What one evaluation did:
\*   kind  "value" (Ok(Some(v))), "null" (Ok(None)), "error" (Err),
\*         "panic" (the thread panicked), "exit" (the process was ended)
Evaluated(kind, v, queried, executed) ==
    [kind |-> kind, v |-> v, queried |-> queried, executed |-> executed,
     out |-> NoCall.out]

\* nbody, lines 13-18: the ? on the result of execute, then the first
\* element of the result vector
Projected(out) ==
    LET done == [Evaluated("null", NoVal, TRUE, TRUE) EXCEPT !.out = out]
    IN  IF out.exited THEN [done EXCEPT !.kind = "exit"]
        ELSE IF ~out.res.ok THEN [done EXCEPT !.kind = "error"]
        ELSE IF Len(out.res.val) = 0
        THEN [done EXCEPT !.kind = "panic"]   \* res.as_ref()[0] is out of bounds
        ELSE IF out.res.val[1].ty = "I64"
        THEN [done EXCEPT !.kind = "value", !.v = out.res.val[1].v]
        ELSE done

\* (mutant) a failure of get is taken as the absence of the module
FetchedSoft(id, got, input) ==
    IF ~got.ok \/ ~got.val.some THEN Evaluated("null", NoVal, TRUE, FALSE)
    ELSE Projected(execute([name |-> id, contents |-> got.val.data],
                           "udf_main", <<to_string(input)>>))

\* nbody, lines 12-13: the ? and the if let on the result of get
Fetched(id, got, input) ==
    IF ~got.ok THEN Evaluated("error", NoVal, TRUE, FALSE)
    ELSE IF ~got.val.some THEN Evaluated("null", NoVal, TRUE, FALSE)
    ELSE Projected(execute([name |-> id, contents |-> got.val.data],
                           "udf_main", <<to_string(input)>>))

\* (mutant) a NULL input is passed on as 0
nbodyNullAsZero(id, child) ==
    IF child.kind = "err" THEN Evaluated("error", NoVal, FALSE, FALSE)
    ELSE Fetched(id, GetResult(id),
                 IF child.kind = "null" THEN IntVal(FALSE, <<0>>) ELSE child.v)

\* ScalarFunc::nbody, for wasm_udf_id = id and the child's value
nbody(id, child) ==
    IF child.kind = "err" THEN Evaluated("error", NoVal, FALSE, FALSE)
    ELSE IF child.kind = "null" THEN Evaluated("null", NoVal, FALSE, FALSE)
    ELSE Fetched(id, GetResult(id), child.v)

NoEval == [made |-> FALSE, id |-> "", child |-> ChildNull,
           res |-> Evaluated("null", NoVal, FALSE, FALSE)]

\* One evaluation of the function on a row; its result is held until dropped
Nbody(id, child) ==
    /\ host.alive
    /\ store.open
    /\ ~eval.made
    /\ LET r == nbody(id, child)
       IN  /\ eval' = [made |-> TRUE, id |-> id, child |-> child, res |-> r]
           /\ ret' = IF r.queried THEN GetReturned(id) ELSE ret
           /\ host' = IF r.kind = "exit"
                      THEN [alive |-> FALSE, status |-> r.out.status]
                      ELSE host
    /\ UNCHANGED <<storeVars, loaded, wasm, call, thr, prev>>

DropEval ==
    /\ host.alive
    /\ eval.made
    /\ eval' = NoEval
    /\ UNCHANGED <<storeVars, histVars, wasm, call, host, thr, prev>>

engineVars == <<wasm, call, host>>

(***************************************************************************)
(* One Store shared by several threads: store.rs, statement by statement   *)
(***************************************************************************)
Threads == {1, 2}
\* the payloads the threads insert
ThreadPayloads == {<<1>>, <<2>>}

\* A thread's call: the operation, its arguments, the statement it is at,
\* what it returned, whether it read a module file, and whether the same
\* call was pending or running in another thread when it was requested
IdleThread ==
    [pc |-> "idle", op |-> "none", name |-> "", payload |-> <<>>,
     res |-> Ok(<<>>), read |-> FALSE, with |-> FALSE]
Requests ==
    {[op |-> "get", name |-> n, payload |-> <<>>] : n \in Names}
    \cup {[op |-> "insert", name |-> n, payload |-> p] : n \in Names, p \in ThreadPayloads}
    \cup {[op |-> "list", name |-> "", payload |-> <<>>]}

\* the thread is inside a method of the Store, holding its receiver
Active(t) == thr[t].pc \notin {"idle", "waiting", "returned"}

\* (mutant) a &mut self method entered whatever the other threads hold
ExclusiveUnchecked(t) == TRUE

\* the receiver &mut self of insert and get: no other thread holds the Store
Exclusive(t) == \A u \in Threads \ {t} : ~Active(u)
\* the receiver &self of list: the other holders are holders of &self
Shared(t) == \A u \in Threads \ {t} : Active(u) => thr[u].op = "list"

Pending(u, q) ==
    /\ thr[u].pc \notin {"idle", "returned"}
    /\ thr[u].op = q.op
    /\ thr[u].name = q.name

\* a thread asks for an operation of the Store
Request(t, q) ==
    /\ thr[t].pc = "idle"
    /\ thr' = [thr EXCEPT ![t] =
                 [IdleThread EXCEPT !.pc = "waiting", !.op = q.op,
                                    !.name = q.name, !.payload = q.payload,
                                    !.with = \E u \in Threads \ {t} : Pending(u, q)]]
    /\ UNCHANGED <<storeVars, histVars, engineVars, eval, prev>>

FirstStatement(op) ==
    CASE op = "get" -> "contains"
      [] op = "insert" -> "open"
      [] op = "list" -> "keys"

\* the call starts once its receiver can be borrowed
Enter(t) ==
    /\ thr[t].pc = "waiting"
    /\ IF thr[t].op = "list" THEN Shared(t) ELSE Exclusive(t)
    /\ thr[t].op = "insert" =>
          store.pos + Len(Serialize(store.manifest \cup {thr[t].name})) <= MaxManifestPos
    /\ thr' = [thr EXCEPT ![t].pc = FirstStatement(thr[t].op)]
    /\ UNCHANGED <<storeVars, histVars, engineVars, eval, prev>>

Return(t, res) == [thr EXCEPT ![t].pc = "returned", ![t].res = res]

\* get: if !self.manifest.contains_key(name) { return Ok(None); }
GetContains(t) ==
    /\ thr[t].pc = "contains"
    /\ thr' = IF thr[t].name \notin store.manifest
              THEN Return(t, Ok(None))
              ELSE [thr EXCEPT ![t].pc = "read"]
    /\ UNCHANGED <<storeVars, histVars, engineVars, eval, prev>>

\* get: let content = fs::read(wasm_file)?; Ok(Some(content))
GetRead(t) ==
    /\ thr[t].pc = "read"
    /\ thr' = [Return(t, IF files[thr[t].name].exists
                         THEN Ok(Some(files[thr[t].name].data))
                         ELSE Err("NotFound"))
                  EXCEPT ![t].read = TRUE]
    /\ UNCHANGED <<storeVars, histVars, engineVars, eval, prev>>

\* insert: OpenOptions::new().read(true).write(true).open(&wasm_file)?
InsertOpen(t) ==
    /\ thr[t].pc = "open"
    /\ thr' = IF files[thr[t].name].exists
              THEN [thr EXCEPT ![t].pc = "write"]
              ELSE Return(t, Err("NotFound"))
    /\ UNCHANGED <<storeVars, histVars, engineVars, eval, prev>>

\* insert: f.write_all(&payload)?
InsertWrite(t) ==
    /\ thr[t].pc = "write"
    /\ files' = [files EXCEPT ![thr[t].name] =
                    FileOf(WriteAt(@.data, 0, thr[t].payload))]
    /\ thr' = [thr EXCEPT ![t].pc = "manifest"]
    /\ UNCHANGED <<dir, manifestFile, store, histVars, engineVars, eval, prev>>

\* insert: self.manifest.insert(name.to_owned(), Value::Null)
InsertManifest(t) ==
    /\ thr[t].pc = "manifest"
    /\ store' = [store EXCEPT !.manifest = @ \cup {thr[t].name}]
    /\ thr' = [thr EXCEPT ![t].pc = "flush"]
    /\ UNCHANGED <<dir, manifestFile, files, histVars, engineVars, eval, prev>>

\* insert: self.flush()
InsertFlush(t) ==
    /\ thr[t].pc = "flush"
    /\ manifestFile' = FlushedFile(store.manifest)
    /\ store' = [store EXCEPT !.pos = @ + Len(Serialize(store.manifest))]
    /\ thr' = Return(t, Ok(<<>>))
    /\ UNCHANGED <<dir, files, histVars, engineVars, eval, prev>>

\* list: self.manifest.keys().cloned().collect()
ListKeys(t) ==
    /\ thr[t].pc = "keys"
    /\ thr' = Return(t, Ok(ListResult))
    /\ UNCHANGED <<storeVars, histVars, engineVars, eval, prev>>

\* the caller is done with what the call returned
Forget(t) ==
    /\ thr[t].pc = "returned"
    /\ thr' = [thr EXCEPT ![t] = IdleThread]
    /\ UNCHANGED <<storeVars, histVars, engineVars, eval, prev>>

NoThreads == [t \in Threads |-> IdleThread]

vars == <<dir, manifestFile, files, store, ret, loaded, wasm, call, host, eval, thr, prev>>

EngineIdle ==
    /\ wasm = [name |-> "nbody", contents |-> <<>>]
    /\ call = NoCall
    /\ host = Running

(***************************************************************************)
(* Spec: the store, its operations called one after the other              *)
(***************************************************************************)
Init == StoreInitState /\ EngineIdle /\ eval = NoEval /\ thr = NoThreads /\ prev = NoPrev

Next ==
    \/ StoreInit /\ UNCHANGED <<engineVars, eval, thr, prev>>
    \/ \E n \in Names, p \in Payloads : Insert(n, p) /\ UNCHANGED <<engineVars, eval, thr, prev>>
    \/ \E n \in Names : Get(n) /\ UNCHANGED <<engineVars, eval, thr, prev>>
    \/ List /\ UNCHANGED <<engineVars, eval, thr, prev>>
    \/ \E n \in Names, p \in Payloads : ExtWriteFile(n, p) /\ UNCHANGED <<engineVars, eval, thr, prev>>
    \/ \E n \in Names : ExtRemoveFile(n) /\ UNCHANGED <<engineVars, eval, thr, prev>>

Spec == Init /\ [][Next]_vars

(***************************************************************************)
(* SpecEngine: calls of execute on one WASM value                          *)
(***************************************************************************)
StoreIdle ==
    /\ dir = FALSE
    /\ manifestFile = NoFile
    /\ files = [n \in Names |-> NoFile]
    /\ store = NoStore
    /\ ret = NoRet
    /\ loaded = NotLoaded("a")

InitEngine == EngineInitState /\ StoreIdle /\ eval = NoEval /\ thr = NoThreads /\ prev = NoPrev

NextEngine ==
    \/ /\ ~call.made
       /\ \E e \in Endpoints, as \in ArgLists :
             Execute(e, as) /\ UNCHANGED <<storeVars, histVars, eval, thr, prev>>
    \/ DropResult /\ UNCHANGED <<storeVars, histVars, eval, thr, prev>>

SpecEngine == InitEngine /\ [][NextEngine]_vars
(***************************************************************************)
(* SpecAdapter: evaluations of nbody against a store that is set up and    *)
(* changed between them                                                    *)
(***************************************************************************)
InitAdapter ==
    StoreInitState /\ loaded.name = "a" /\ EngineIdle /\ eval = NoEval /\ thr = NoThreads /\ prev = NoPrev

Between == host.alive /\ ~eval.made /\ UNCHANGED <<engineVars, eval, thr, prev>>

NextAdapter ==
    \/ StoreInit /\ Between
    \/ \E n \in Names, p \in Payloads : Insert(n, p) /\ Between
    \/ \E n \in Names, p \in Payloads : ExtWriteFile(n, p) /\ Between
    \/ \E n \in Names : ExtRemoveFile(n) /\ Between
    \/ \E n \in Names, c \in Inputs : Nbody(n, c)
    \/ DropEval

SpecAdapter == InitAdapter /\ [][NextAdapter]_vars
(***************************************************************************)
(* SpecConc: threads calling the operations of one Store that init has     *)
(* returned, over a directory provisioned with module files                *)
(***************************************************************************)
InitConc ==
    /\ dir = TRUE
    /\ manifestFile = FileOf(Serialize({}))
    /\ files \in [Names -> {NoFile, FileOf(<<>>)}]
    /\ store = [open |-> TRUE, manifest |-> {}, pos |-> 0]
    /\ ret = NoRet
    /\ loaded = NotLoaded("a")
    /\ EngineIdle
    /\ eval = NoEval
    /\ thr = NoThreads /\ prev = NoPrev

NextConc ==
    \/ \E t \in Threads, q \in Requests : Request(t, q)
    \/ \E t \in Threads : Enter(t)
    \/ \E t \in Threads : GetContains(t)
    \/ \E t \in Threads : GetRead(t)
    \/ \E t \in Threads : InsertOpen(t)
    \/ \E t \in Threads : InsertWrite(t)
    \/ \E t \in Threads : InsertManifest(t)
    \/ \E t \in Threads : InsertFlush(t)
    \/ \E t \in Threads : ListKeys(t)
    \/ \E t \in Threads : Forget(t)

SpecConc == InitConc /\ [][NextConc]_vars
(***************************************************************************)
(* SpecRepeat: calls of execute on one WASM value, one after the other,    *)
(* each compared with the one before it                                    *)
(***************************************************************************)
InitRepeat ==
    /\ EngineInitState
    /\ prev = NoPrev
    /\ StoreIdle
    /\ eval = NoEval
    /\ thr = NoThreads

NextRepeat ==
    \/ /\ ~call.made
       /\ \E e \in Endpoints, as \in RepeatArgLists :
             Execute(e, as) /\ UNCHANGED <<storeVars, histVars, eval, thr, prev>>
    \/ NextCall /\ UNCHANGED <<storeVars, histVars, eval, thr>>

SpecRepeat == InitRepeat /\ [][NextRepeat]_vars
(***************************************************************************)
(* Properties of the engine, checked under SpecEngine                      *)
(***************************************************************************)
\* the module the called value compiles to, and the export the call names
CallModule == Compile(wasm.contents).module
CallExport == CallModule.exports[call.endpoint]
CallInstantiates ==
    /\ Compile(wasm.contents).ok
    /\ Instantiates(CallModule, ImportObject(wasm, CallModule, call.args))
CallErr == call.out.res.err

\* The call names a function of a module that compiles, with a number of
\* arguments other than its declared parameter count
C1_Case ==
    /\ call.made
    /\ Compile(wasm.contents).ok
    /\ CallExport.kind = "func"
    /\ Len(call.args) # Len(CallExport.params)

\* C1, as claimed: execute with a number of arguments different from the
\* endpoint's declared parameter count always fails with ArityMismatch, and
\* the module has not been instantiated when it fails.
C1_Original ==
    C1_Case => /\ ~call.out.res.ok
               /\ CallErr.kind = "ArityMismatch"
               /\ ~call.out.instantiated

\* C1, amended: when the module also instantiates, such a call fails with
\* ArityMismatch carrying the declared and the received count and the
\* arguments, after the module has been instantiated and the export
\* resolved, and before any argument is coerced or the endpoint invoked.
C1_ArityCheckedAfterInstantiation ==
    (C1_Case /\ CallInstantiates) =>
        /\ ~call.out.res.ok
        /\ CallErr.kind = "ArityMismatch"
        /\ CallErr.expected = Len(CallExport.params)
        /\ CallErr.received = Len(call.args)
        /\ CallErr.args = call.args
        /\ call.out.instantiated
        /\ ~call.out.invoked
        /\ call.out.steps = <<"compile", "imports", "instantiate", "resolve", "arity">>

C1_Witness ==
    /\ C1_Case
    /\ call.out.instantiated
    /\ CallErr.kind = "ArityMismatch"
    /\ CallErr.expected = 2
    /\ CallErr.received = 1

\* the 32-bit pattern of an exit status, as 16-bit halves
U32Of(status) == <<(status \div 65536) % 65536, status % 65536>>

\* what the body of the invoked endpoint did
CallFailure == CallOutcome(CallExport.body, call.out.invoke_args)

\* C2: when the invocation of the endpoint fails, the host process ends with
\* exit code N if and only if the failure is the WASI session's exit request
\* with code N (the status passed to exit is N as a 32-bit value); every other
\* failure is returned to the caller as an error and the process keeps
\* running.  The process ends in no other way.
C2_ExitOnlyOnExitRequest ==
    /\ (call.made /\ call.out.invoked /\ CallFailure.kind # "ok") =>
          IF CallFailure.kind = "wasi_exit"
          THEN ~host.alive /\ U32Of(host.status) = CallFailure.code
          ELSE /\ host.alive
               /\ ~call.out.res.ok
               /\ CallErr.kind \in {"RuntimeError", "WasiError"}
    /\ ~host.alive =>
          call.made /\ call.out.invoked /\ CallFailure.kind = "wasi_exit"

C2_Witness ==
    /\ ~host.alive
    /\ CallFailure.kind = "wasi_exit"
    /\ CallFailure.code = ExitCodeMax
    /\ host.status = -1

\* the argument does not convert to the parameter kind
Unconvertible(arg, ty) ==
    CASE ty = "I32" -> ~ParseInt(arg, I32Max, I32MinMag).some
      [] ty = "I64" -> ~ParseInt(arg, I64Max, I64MinMag).some
      [] ty \in {"F32", "F64"} -> ~ParseFloat(arg).some
      [] OTHER -> TRUE
FailSet ==
    {i \in 1..Len(call.args) : Unconvertible(call.args[i], CallExport.params[i])}
FirstFailing == CHOOSE i \in FailSet : \A j \in FailSet : i <= j

\* The call reaches the coercion of its arguments and some argument does not
\* convert
C7_Case ==
    /\ call.made
    /\ CallInstantiates
    /\ CallExport.kind = "func"
    /\ Len(call.args) = Len(CallExport.params)
    /\ FailSet # {}

\* C7: when the argument at index i fails to parse as the numeric kind
\* declared for position i, i being the lowest index whose conversion fails,
\* execute fails with the conversion error of that argument: the error
\* carries the argument's text and the target kind, which single out index i
\* among the call's arguments, and the endpoint is not invoked.
C7_LowestFailingArgument ==
    (C7_Case /\ CallExport.params[FirstFailing] \in NumericTypes) =>
        /\ ~call.out.res.ok
        /\ CallErr.kind = "CantConvert"
        /\ CallErr.arg = call.args[FirstFailing]
        /\ CallErr.target = CallExport.params[FirstFailing]
        /\ \A j \in 1..Len(call.args) :
              (call.args[j] = CallErr.arg /\ CallExport.params[j] = CallErr.target)
                  => j >= FirstFailing
        /\ ~call.out.invoked

C7_Witness ==
    /\ C7_Case
    /\ FailSet = {1, 2}
    /\ call.args[1] # call.args[2]
    /\ CallErr.kind = "CantConvert"
    /\ CallErr.arg = call.args[1]

\* The call names something that is not an exported function of a module
\* that instantiates
C8_Case ==
    /\ call.made
    /\ call.out.instantiated
    /\ CallExport.kind # "func"
ExportsAFunction == \E e \in Endpoints : CallModule.exports[e].kind = "func"

\* C8, as claimed: the no-exported-functions message is given exactly when
\* the module exports no function, and an absent name of a module that
\* exports a function gets the name-not-found message.
C8_Original ==
    C8_Case =>
        /\ ~call.out.res.ok
        /\ CallErr.kind = "NoExportedFunctions" <=> ~ExportsAFunction
        /\ (ExportsAFunction /\ CallExport.kind = "none") => CallErr.kind = "NoExport"

\* C8, amended: the no-exported-functions message is given exactly when the
\* module has no function at all (defined or imported, exported or not); in a
\* module that has a function, an absent name gets the name-not-found
\* message with the name, also when the module exports no function.
C8_MessageByFunctionCount ==
    C8_Case =>
        /\ ~call.out.res.ok
        /\ ~call.out.invoked
        /\ CallErr.kind = "NoExportedFunctions" <=> CallModule.nfuncs = 0
        /\ (CallModule.nfuncs > 0 /\ CallExport.kind = "none") =>
              (CallErr.kind = "NoExport" /\ CallErr.name = call.endpoint)

C8_Witness ==
    /\ C8_Case
    /\ ~ExportsAFunction
    /\ CallModule.nfuncs > 0
    /\ CallErr.kind = "NoExport"
\* the steps of execute, in the order of the code
AllSteps == <<"compile", "imports", "instantiate", "resolve", "arity", "coerce", "invoke">>
\* the first step of the call that fails, from the module and the arguments
FirstFailedStep ==
    IF ~Compile(wasm.contents).ok THEN "compile"
    ELSE IF ~CallInstantiates THEN "instantiate"
    ELSE IF CallExport.kind # "func" THEN "resolve"
    ELSE IF Len(call.args) # Len(CallExport.params) THEN "arity"
    ELSE IF FailSet # {} THEN "coerce"
    ELSE "none"
\* the errors of each step
StepErrors(step) ==
    CASE step = "compile" -> {"CompileError"}
      [] step = "instantiate" -> {"InstantiationError"}
      [] step = "resolve" -> {"NoExport", "NoExportedFunctions", "NotAFunction"}
      [] step = "arity" -> {"ArityMismatch"}
      [] step = "coerce" -> {"CantConvert", "DontKnowHow"}
      [] OTHER -> {}
\* the position of a step in the order of the code
StepIndex(step) == CHOOSE i \in 1..Len(AllSteps) : AllSteps[i] = step

\* C14: the steps of execute run in the order compile, instantiate, resolve
\* export, validate arity, coerce arguments, invoke, and the call returns the
\* error of the first step that fails, having entered no later step: an
\* absent endpoint yields the export-not-found error whatever the argument
\* count, a wrong argument count yields ArityMismatch even when an argument
\* is unparsable, and the endpoint is invoked only when every earlier step
\* succeeded.
C14_FirstFailingStepDecides ==
    call.made =>
        IF FirstFailedStep = "none"
        THEN /\ call.out.invoked
             /\ call.out.steps = AllSteps
        ELSE /\ ~call.out.invoked
             /\ ~call.out.res.ok
             /\ CallErr.kind \in StepErrors(FirstFailedStep)
             /\ (FirstFailedStep = "resolve" /\ CallExport.kind = "none")
                   => CallErr.kind \in {"NoExport", "NoExportedFunctions"}
             /\ \E n \in 1..Len(AllSteps) :
                   /\ call.out.steps = SubSeq(AllSteps, 1, n)
                   /\ n = IF FirstFailedStep = "compile" THEN 1
                          ELSE StepIndex(FirstFailedStep)

\* a call with one argument too many, the first of them unparsable, on an
\* endpoint that resolves: it fails on the count
C14_Witness ==
    /\ call.made
    /\ FirstFailedStep = "arity"
    /\ Len(call.args) = 2
    /\ Len(CallExport.params) = 1
    /\ Unconvertible(call.args[1], CallExport.params[1])
    /\ CallErr.kind = "ArityMismatch"

\* the call was made on bytes that compile
CallCompiled == call.made /\ Compile(wasm.contents).ok

Unsigned(s) == IF s # <<>> /\ s[1] \in {"+", "-"} THEN Tail(s) ELSE s
IsDecimal(s) == Unsigned(s) # <<>> /\ \A i \in 1..Len(Unsigned(s)) : IsDigit(Unsigned(s)[i])
\* the integer a decimal text denotes
Denoted(s) ==
    IntVal(s[1] = "-", [i \in 1..Len(Unsigned(s)) |-> DigitOf(Unsigned(s)[i])])
\* the integer is a value of the integer kind
InKind(v, ty) ==
    IF ty = "I32" THEN MagLeq(v.mag, IF v.neg THEN I32MinMag ELSE I32Max)
    ELSE MagLeq(v.mag, IF v.neg THEN I64MinMag ELSE I64Max)
\* the magnitude is one the float kind has: its odd part fits the significand
RECURSIVE OddPart(_)
OddPart(ds) ==
    IF ds = <<0>> \/ IsOdd(ds) THEN ds
    ELSE CHOOSE r \in {OddPart(h) : h \in {Halve(ds)}} : TRUE
InFloatKind(ds, ty) ==
    LET limit == IF ty = "F32" THEN F32Limit ELSE F64Limit
    IN  MagLeq(OddPart(ds), limit) /\ OddPart(ds) # limit
\* the digits of a float value written as an integer
DigitsOf(mag) == [i \in 1..Len(mag) |-> DigitOf(mag[i])]

\* the call reaches the coercion of its arguments
C16_Case ==
    /\ call.made
    /\ CallInstantiates
    /\ CallExport.kind = "func"
    /\ Len(call.args) = Len(CallExport.params)

C3_Original ==
    (ret.op = "get" /\ ~files[ret.name].exists) =>
        (~ret.res.ok /\ ret.res.err = "NotFound")

\* C3, amended: for any name with no backing file, get(name) returns
\* Ok(None) when the manifest does not hold the name and fails with the
\* file-not-found error when it does; in both cases the store's in-memory
\* state and the disk are the same after the call as before it.
C3_GetWithoutFile ==
    [][(ret'.op = "get" /\ ~files[ret'.name].exists) =>
          /\ store' = store
          /\ files' = files
          /\ manifestFile' = manifestFile
          /\ IF ret'.name \in store.manifest
             THEN ~ret'.res.ok /\ ret'.res.err = "NotFound"
             ELSE ret'.res.ok /\ ~ret'.res.val.some]_vars

C3_Witness ==
    /\ ret.op = "get"
    /\ ~files[ret.name].exists
    /\ ret.name \in store.manifest
    /\ ~ret.res.ok

\* C4, as claimed: for any id that one get(id) has loaded successfully, a
\* second get(id) returns a value equal to the first and performs no second
\* read of durable storage.
C4_Original ==
    (ret.op = "get" /\ ret.again) =>
        /\ ret.res.ok
        /\ ret.res.val.some
        /\ ret.res.val.data = loaded.data
        /\ ~ret.read

\* C4, amended: for any id that one get(id) has loaded successfully, a
\* second get(id) reads durable storage again (nothing is cached) and
\* returns a value equal to the first provided the backing file has not
\* changed in between.
C4_SecondGetReadsAgain ==
    (ret.op = "get" /\ ret.again) =>
        /\ ret.read
        /\ loaded.fresh =>
              /\ ret.res.ok
              /\ ret.res.val.some
              /\ ret.res.val.data = loaded.data

C4_Witness ==
    /\ ret.op = "get"
    /\ ret.again
    /\ ret.read
    /\ loaded.fresh
    /\ ret.res.ok
    /\ ret.res.val.data = loaded.data

\* C5, as claimed: after any sequence of store operations, every get(id)
\* returns the same bytes as the first successful get(id).
C5_Original ==
    (ret.op = "get" /\ ret.again) =>
        (ret.res.ok /\ ret.res.val.some /\ ret.res.val.data = loaded.data)

\* C5, amended: module bytes stored under an id are not immutable: every
\* successful get(id) returns the bytes the backing file holds at the time of
\* the call, so after a later insert under the same id or a change of the
\* backing file it returns the changed bytes, not those of the first get.
C5_GetReturnsCurrentFile ==
    (ret.op = "get" /\ ret.res.ok /\ ret.res.val.some) =>
        /\ files[ret.name].exists
        /\ ret.res.val.data = files[ret.name].data

C5_Witness ==
    /\ ret.op = "get"
    /\ ret.again
    /\ ret.res.ok
    /\ ret.res.val.some
    /\ ret.res.val.data # loaded.data
    /\ ret.res.val.data = files[ret.name].data

\* C9: when no backing directory exists beforehand, init() does not fail and
\* returns an empty store (its list() is empty).
C9_InitOnFreshLocation ==
    (ret.op = "init" /\ ret.fresh) =>
        /\ ret.res.ok
        /\ store.open
        /\ store.manifest = {}
(***************************************************************************)
(* Properties of the adapter, checked under SpecAdapter                    *)
(***************************************************************************)
\* the result vector execute returned to the evaluation
EvalResults == eval.res.out.res.val

\* C10: when execute returns a result vector whose first element is not of
\* the expected scalar kind (i64), or an empty result vector, the function
\* evaluates to null: it neither fails nor aborts.
C10_NullOnOtherOrEmptyResult ==
    (/\ eval.made
     /\ eval.res.executed
     /\ ~eval.res.out.exited
     /\ eval.res.out.res.ok
     /\ (Len(EvalResults) = 0 \/ EvalResults[1].ty # "I64"))
        => eval.res.kind = "null"

(***************************************************************************)
(* Properties of the shared store, checked under SpecConc                  *)
(***************************************************************************)
\* thread t is inside get or insert, thread u inside any method of the Store
Overlap(t, u) ==
    /\ t # u
    /\ thr[t].pc \in {"contains", "read", "open", "write", "manifest", "flush"}
    /\ thr[u].pc \notin {"idle", "waiting", "returned"}

\* the only thread inside the Store is inside insert
AloneInInsert ==
    \E t \in Threads :
        /\ thr[t].pc \in {"open", "write", "manifest", "flush"}
        /\ \A u \in Threads \ {t} : thr[u].pc \in {"idle", "waiting", "returned"}

\* C6: get requested by several threads at once, for the same or different
\* names, is safe: no thread is inside get or insert while another thread is
\* inside any method of the Store; the Store's in-memory state changes only
\* in a step of an insert that is alone in the Store, and stays so after it;
\* and a name a get has returned bytes for is a name of the manifest.
C6_MutationExcludesOtherAccess ==
    /\ [](\A t, u \in Threads : ~Overlap(t, u))
    /\ [](\A t \in Threads :
            (thr[t].pc = "returned" /\ thr[t].op = "get" /\ thr[t].read)
                => thr[t].name \in store.manifest)
    /\ [][store' # store => (AloneInInsert /\
             \A u \in Threads : (thr[u].pc \in {"idle", "waiting", "returned"})
                                   => thr'[u] = thr[u])]_vars

\* two gets of the same name, the second requested while the first was
\* pending, have both returned, each having read the module's file
C6_Witness ==
    \E t, u \in Threads :
        /\ t # u
        /\ thr[t].pc = "returned" /\ thr[u].pc = "returned"
        /\ thr[t].op = "get" /\ thr[u].op = "get"
        /\ thr[t].name = thr[u].name
        /\ thr[t].read /\ thr[u].read
        /\ thr[u].with
        /\ thr[t].res.ok /\ thr[t].res = thr[u].res

\* an evaluation with a non-null input, for an id that has no file
EvalWithoutFile ==
    /\ eval.made
    /\ eval.child.kind = "int"
    /\ ~files[eval.id].exists

\* C11 as stated: with no module bytes for the id, recorded by the store or
\* not, the function evaluates to null and never to an evaluation error.
C11_Original == EvalWithoutFile => eval.res.kind = "null"

\* C11: with no file for the id, the function evaluates to null exactly when
\* the store has no record of the id; when the manifest holds the id, the
\* failure of get is the evaluation's error.  The module is executed in
\* neither case.
C11_NullOnlyWhenUnrecorded ==
    EvalWithoutFile =>
        /\ eval.res.queried /\ ~eval.res.executed
        /\ eval.id \notin store.manifest => eval.res.kind = "null"
        /\ eval.id \in store.manifest => eval.res.kind = "error"

C11_Witness ==
    /\ EvalWithoutFile
    /\ eval.id \in store.manifest
    /\ eval.res.kind = "error"

\* C12: a null input short-circuits to a null result: in that evaluation the
\* store is not queried (the record of the last store operation stays as it
\* was), the module is not executed and the host process is not ended.
C12_NullInputShortCircuits ==
    /\ [](eval.made /\ eval.child.kind = "null"
            => /\ eval.res.kind = "null"
               /\ ~eval.res.queried
               /\ ~eval.res.executed)
    /\ [][(eval'.made /\ ~eval.made /\ eval'.child.kind = "null")
            => (ret' = ret /\ host' = host /\ store' = store)]_vars

\* a null input for an id whose module is stored and would have run
C12_Witness ==
    /\ eval.made
    /\ eval.child.kind = "null"
    /\ eval.res.kind = "null"
    /\ eval.id \in store.manifest
    /\ files[eval.id].exists
    /\ files[eval.id].data = <<1>>

(***************************************************************************)
(* Properties of repeated calls, checked under SpecRepeat                  *)
(***************************************************************************)
\* the call in hand was made after another call on the same WASM value
Repeated == call.made /\ prev.made

Inserted == ret.op = "insert" /\ ret.res.ok

\* C17: store round trip: after a successful insert(name, payload),
\* get(name) returns exactly payload, whatever was stored under name before
\* (a longer payload included).
C17_GetAfterInsert ==
    Inserted => GetResult(ret.name) = Ok(Some(ret.arg))

\* C18: manifest persistence: after any sequence of successful inserts the
\* manifest file holds one JSON object equal to the in-memory manifest, so
\* that an init() that follows succeeds and lists exactly the names inserted.
C18_ManifestFileIsTheManifest ==
    Inserted =>
        /\ manifestFile.exists
        /\ IsObject(manifestFile.data)
        /\ ObjectKeys(manifestFile.data) = store.manifest
        /\ InitResult = Ok(store.manifest)

\* C19: insert is all-or-nothing for the store's name set: an insert of a
\* name never stored before succeeds and makes the name appear in list();
\* when insert returns an error, list() and the manifest on disk are as
\* before the call; get returns None for every name not in list().
C19_InsertAllOrNothing ==
    [][ret'.op = "insert" =>
          /\ ret'.name \notin store.manifest =>
                (ret'.res.ok /\ ret'.name \in store'.manifest)
          /\ ~ret'.res.ok =>
                (store'.manifest = store.manifest /\ manifestFile' = manifestFile)
          /\ \A n \in Names \ store'.manifest : GetResult(n)' = Ok(None)
      ]_vars
====
